---- MODULE Spec2Model ----
(***************************************************************************)
(* Model of the widgets of ai-chem-pilot.                                   *)
(* SMILESModule.tsx: the component state, the mock analyzer and the two     *)
(* asynchronous handlers analyzeSingle and analyzeBatch.                    *)
(* GANModule.tsx: the training loop startTraining and stopTraining.         *)
(* VAEModule.tsx: the generation loop generateMolecules.                    *)
(*                                                                          *)
(* A JavaScript string is modelled as a sequence of one-character strings,  *)
(* so that length, includes, trim, split and template formatting are        *)
(* computed character by character as the code computes them.               *)
(***************************************************************************)
EXTENDS Integers, Sequences, FiniteSets, TLC

(***************************************************************************)
(* Bounds of the model.                                                     *)
(* Math.random() returns an unspecified number in [0,1).  The model draws   *)
(* it from the samples k/RandDen; one analysis makes NumRandomCalls calls,  *)
(* and the vectors of their values are drawn from NumSamples rotations of   *)
(* a sample sequence that walks over the range in steps of SampleStep.      *)
(***************************************************************************)
RandDen == 10
NumSamples == 4
SampleStep == 3

\* Math.random() is called eleven times by one mockAnalyzeSMILES call
\* (lines 48, 49, 57, 58, 59, 60, 61 (twice), 65, 66, 67).
NumRandomCalls == 11

(***************************************************************************)
(* Strings                                                                  *)
(***************************************************************************)
Whitespace == {" ", "\n", "\t"}

\* String.prototype.includes for a one-character needle
includes(s, ch) == \E i \in 1..Len(s) : s[i] = ch

RECURSIVE trimStart(_)
trimStart(s) ==
  IF s # <<>> /\ Head(s) \in Whitespace THEN trimStart(Tail(s)) ELSE s

RECURSIVE trimEnd(_)
trimEnd(s) ==
  IF s # <<>> /\ s[Len(s)] \in Whitespace
    THEN trimEnd(SubSeq(s, 1, Len(s) - 1))
    ELSE s

\* String.prototype.trim
trim(s) == trimEnd(trimStart(s))

\* String.prototype.split('\n'): the pieces between the newlines, empty
\* pieces included; cur is the piece being read
RECURSIVE splitFrom(_, _)
splitFrom(s, cur) ==
  IF s = <<>> THEN <<cur>>
  ELSE IF Head(s) = "\n" THEN <<cur>> \o splitFrom(Tail(s), <<>>)
  ELSE splitFrom(Tail(s), Append(cur, Head(s)))

split(s) == splitFrom(s, <<>>)

\* Array.prototype.filter(s => s.trim()): an empty string is falsy
RECURSIVE filterNonBlank(_)
filterNonBlank(list) ==
  IF list = <<>> THEN <<>>
  ELSE IF trim(Head(list)) # <<>>
    THEN <<Head(list)>> \o filterNonBlank(Tail(list))
    ELSE filterNonBlank(Tail(list))

DigitChars == <<"0", "1", "2", "3", "4", "5", "6", "7", "8", "9">>

\* the decimal digits of a natural number, as a template literal prints it
RECURSIVE Digits(_)
Digits(n) ==
  IF n < 10 THEN <<DigitChars[n + 1]>>
  ELSE Digits(n \div 10) \o <<DigitChars[(n % 10) + 1]>>

(***************************************************************************)
(* The strings the model feeds to the widget                                *)
(***************************************************************************)
Aspirin == <<"C", "C", "(", "=", "O", ")", "O", "C", "1", "=", "C", "C", "=", "C", "C", "=", "C", "1", "C", "(", "=", "O", ")", "O">>
DrugLike == <<"C", "N", "1", "C", "C", "N", "(", "C", "C", "1", ")", "C", "2", "=", "C", "C", "=", "C", "(", "C", "=", "C", "2", ")", "O", "C">>
Sulfonamide == <<"C", "C", "1", "=", "C", "C", "=", "C", "(", "C", "=", "C", "1", ")", "S", "(", "=", "O", ")", "(", "=", "O", ")", "N", "C", "2", "=", "C", "C", "=", "C", "C", "=", "N", "2">>
Biphenyl == <<"C", "1", "=", "C", "C", "=", "C", "(", "C", "=", "C", "1", ")", "C", "2", "=", "C", "C", "=", "C", "C", "=", "C", "2">>
PalmiticAcid == <<"O", "=", "C", "(", "O", ")", "C", "C", "C", "C", "C", "C", "C", "C", "C", "C", "C", "C", "C", "C", "C">>

sampleMolecules == <<Aspirin, DrugLike, Sulfonamide, Biphenyl, PalmiticAcid>>

OpenBranch == <<"C", "C", "C", "C", "C", "C", "(">>
OpenRing == <<"C", "C", "C", "C", "C", "C", "1">>
Pentanol == <<"C", "C", "C", "C", "C", "O">>
LeadingSpace == <<" ", "C", "C", "C", "C", "C", "O">>
InnerSpace == <<"C", "C", " ", "C", "C", "C", "O">>
WithX == <<"C", "C", "C", "C", "C", "X">>
Ethane == <<"C", "C">>
Blank == <<" ", " ">>

\* what the user types into the single-analysis input
TypedInputs ==
  {<<>>, Blank, OpenBranch, OpenRing, LeadingSpace, InnerSpace, WithX, Ethane}

\* what the user types into the batch textarea
TwoLines == OpenBranch \o <<"\n">> \o Pentanol
BlankLineInside == Pentanol \o <<"\n", "\n">> \o <<" ">> \o WithX
SameLineTwice == Pentanol \o <<"\n">> \o Pentanol
ThreeLines == WithX \o <<"\n">> \o OpenRing \o <<"\n">> \o Pentanol

TypedBatches ==
  {<<>>, <<" ", "\n">>, Pentanol, TwoLines, BlankLineInside, SameLineTwice,
   ThreeLines}

(***************************************************************************)
(* Math.random()                                                            *)
(***************************************************************************)
\* the j-th sample: the numerator of a value in [0,1) over RandDen
Sample(j) == (RandDen - 1 - SampleStep * j) % RandDen

\* the values of the NumRandomCalls calls of one analysis, in call order
Draws ==
  { [i \in 1..NumRandomCalls |-> Sample((s + i) % NumSamples)] :
      s \in 0..(NumSamples - 1) }

\* Math.floor(Math.random() * n) for Math.random() = k / RandDen
RandFloor(k, n) == (k * n) \div RandDen

\* Math.random() > num/den for Math.random() = k / RandDen
RandAbove(k, num, den) == k * den > num * RandDen

(***************************************************************************)
(* mockAnalyzeSMILES                                                        *)
(* Math.floor(atomCount * 1.2), Math.floor(atomCount * 0.6) and             *)
(* Math.floor(atomCount * 0.8) equal (6n) div 5, (3n) div 5 and (4n) div 5  *)
(* in IEEE double arithmetic for every atomCount the code can draw (10..59).*)
(***************************************************************************)
mockAnalyzeSMILES_mwPass(smiles, d) ==
  LET atomCount == RandFloor(d[1], 50) + 10
      mw == RandFloor(d[2], 400) + 150
  IN [ smiles |-> smiles,
       isValid |-> Len(smiles) > 5 /\ ~includes(smiles, "X"),
       molecularWeight |-> mw,
       atomCount |-> atomCount,
       bondCount |-> (atomCount * 6) \div 5,
       rings |-> RandFloor(d[3], 4),
       aromaticRings |-> RandFloor(d[4], 3),
       heteroatoms |-> RandFloor(d[5], 8),
       rotatable |-> RandFloor(d[6], 10),
       formula |-> <<"C">> \o Digits((atomCount * 3) \div 5)
                   \o <<"H">> \o Digits((atomCount * 4) \div 5)
                   \o <<"N">> \o Digits(RandFloor(d[7], 3))
                   \o <<"O">> \o Digits(RandFloor(d[8], 5)),
       lipinski |-> [ mw |-> TRUE,
                      logp |-> TRUE,
                      hbd |-> RandAbove(d[9], 3, 10),
                      hba |-> RandAbove(d[10], 2, 10),
                      violations |-> RandFloor(d[11], 3) ] ]

mockAnalyzeSMILES(smiles, d) ==
  LET atomCount == RandFloor(d[1], 50) + 10
      mw == RandFloor(d[2], 400) + 150
  IN [ smiles |-> smiles,
       isValid |-> Len(smiles) > 5 /\ ~includes(smiles, "X"),
       molecularWeight |-> mw,
       atomCount |-> atomCount,
       bondCount |-> (atomCount * 6) \div 5,
       rings |-> RandFloor(d[3], 4),
       aromaticRings |-> RandFloor(d[4], 3),
       heteroatoms |-> RandFloor(d[5], 8),
       rotatable |-> RandFloor(d[6], 10),
       formula |-> <<"C">> \o Digits((atomCount * 3) \div 5)
                   \o <<"H">> \o Digits((atomCount * 4) \div 5)
                   \o <<"N">> \o Digits(RandFloor(d[7], 3))
                   \o <<"O">> \o Digits(RandFloor(d[8], 5)),
       lipinski |-> [ mw |-> mw <= 500,
                      logp |-> TRUE,
                      hbd |-> RandAbove(d[9], 3, 10),
                      hba |-> RandAbove(d[10], 2, 10),
                      violations |-> RandFloor(d[11], 3) ] ]

(***************************************************************************)
(* Component state                                                          *)
(***************************************************************************)
VARIABLES
  inputSMILES,   \* useState("")
  analysis,      \* useState<SMILESAnalysis | null>(null)
  batchInput,    \* useState("")
  batchResults,  \* useState<SMILESAnalysis[]>([])
  isAnalyzing,   \* useState(false)
  toast,         \* the last toast shown: title, variant, interpolated numbers
  single,        \* the analyzeSingle call in flight: position, captured input
  batch,         \* the analyzeBatch call in flight: position, smilesList, results
  cancelRequested,  \* the item during which the user asked to cancel; 0: none
  \* GANModule
  isTraining,         \* useState(false)
  currentEpoch,       \* useState(0)
  metrics,            \* useState<TrainingMetrics | null>(null)
  trainingHistory,    \* useState<TrainingMetrics[]>([])
  convergenceStatus,  \* useState('stable')
  ganToast,           \* the last toast of the GAN widget
  training,           \* the startTraining calls in flight, one per slot
  \* VAEModule
  isGenerating,        \* useState(false)
  progress,            \* useState(0)
  generatedMolecules,  \* useState<GeneratedMolecule[]>([])
  vaeToast,            \* the last toast of the VAE widget
  generating           \* the generateMolecules call in flight: position, i

smilesVars ==
  <<inputSMILES, analysis, batchInput, batchResults, isAnalyzing, toast,
    single, batch, cancelRequested>>

ganVars ==
  <<isTraining, currentEpoch, metrics, trainingHistory, convergenceStatus,
    ganToast, training>>

vaeVars == <<isGenerating, progress, generatedMolecules, vaeToast, generating>>

vars == <<smilesVars, ganVars, vaeVars>>

\* the null of useState<SMILESAnalysis | null>, and "no toast yet"
Null == [null |-> TRUE]

SingleIdle == [pc |-> "idle"]
BatchIdle == [pc |-> "idle"]

\* the number of startTraining calls that may be in flight at once
MaxRuns == 2

TrainingIdle == [pc |-> "idle"]
GeneratingIdle == [pc |-> "idle"]

Init ==
  /\ inputSMILES = <<>>
  /\ analysis = Null
  /\ batchInput = <<>>
  /\ batchResults = <<>>
  /\ isAnalyzing = FALSE
  /\ toast = Null
  /\ single = SingleIdle
  /\ batch = BatchIdle
  /\ cancelRequested = 0
  /\ isTraining = FALSE
  /\ currentEpoch = 0
  /\ metrics = Null
  /\ trainingHistory = <<>>
  /\ convergenceStatus = "stable"
  /\ ganToast = Null
  /\ training = [r \in 1..MaxRuns |-> TrainingIdle]
  /\ isGenerating = FALSE
  /\ progress = 0
  /\ generatedMolecules = <<>>
  /\ vaeToast = Null
  /\ generating = GeneratingIdle

(***************************************************************************)
(* Single analysis                                                          *)
(***************************************************************************)
\* onChange of the input: the user may type at any time
setInputSMILES(s) ==
  /\ inputSMILES' = s
  /\ UNCHANGED <<analysis, batchInput, batchResults, isAnalyzing, toast,
                 single, batch>>
  /\ UNCHANGED <<cancelRequested, ganVars, vaeVars>>

\* a sample button
loadSample(smiles) ==
  /\ inputSMILES' = smiles
  /\ UNCHANGED <<analysis, batchInput, batchResults, isAnalyzing, toast,
                 single, batch>>
  /\ UNCHANGED <<cancelRequested, ganVars, vaeVars>>

\* analyzeSingle with the test !inputSMILES in place of !inputSMILES.trim()
analyzeSingle_noTrim ==
  /\ ~isAnalyzing
  /\ IF inputSMILES = <<>>
       THEN /\ toast' = [title |-> "Error", variant |-> "destructive",
                         args |-> <<>>]
            /\ UNCHANGED <<isAnalyzing, single>>
       ELSE /\ isAnalyzing' = TRUE
            /\ single' = [pc |-> "await", inputSMILES |-> inputSMILES]
            /\ UNCHANGED toast
  /\ UNCHANGED <<inputSMILES, analysis, batchInput, batchResults, batch>>
  /\ UNCHANGED <<cancelRequested, ganVars, vaeVars>>

\* click on "Analyze SMILES" (disabled while isAnalyzing): the handler runs
\* up to its await; the closure keeps the inputSMILES of this render
analyzeSingle ==
  /\ ~isAnalyzing
  /\ IF trim(inputSMILES) = <<>>
       THEN /\ toast' = [title |-> "Error", variant |-> "destructive",
                         args |-> <<>>]
            /\ UNCHANGED <<isAnalyzing, single>>
       ELSE /\ isAnalyzing' = TRUE
            /\ single' = [pc |-> "await", inputSMILES |-> inputSMILES]
            /\ UNCHANGED toast
  /\ UNCHANGED <<inputSMILES, analysis, batchInput, batchResults, batch>>
  /\ UNCHANGED <<cancelRequested, ganVars, vaeVars>>

\* the 1000 ms timer fires: the rest of analyzeSingle
analyzeSingleResume ==
  /\ single.pc = "await"
  /\ \E d \in Draws :
       LET result == mockAnalyzeSMILES(trim(single.inputSMILES), d)
       IN /\ analysis' = result
          /\ isAnalyzing' = FALSE
          /\ toast' = IF result.isValid
                        THEN [title |-> "Analysis Complete",
                              variant |-> "default",
                              args |-> <<result.molecularWeight>>]
                        ELSE [title |-> "Invalid SMILES",
                              variant |-> "destructive",
                              args |-> <<>>]
  /\ single' = SingleIdle
  /\ UNCHANGED <<inputSMILES, batchInput, batchResults, batch>>
  /\ UNCHANGED <<cancelRequested, ganVars, vaeVars>>

NextSingle ==
  \/ \E s \in TypedInputs : setInputSMILES(s)
  \/ \E i \in 1..Len(sampleMolecules) : loadSample(sampleMolecules[i])
  \/ analyzeSingle
  \/ analyzeSingleResume

SpecSingle == Init /\ [][NextSingle]_vars

(***************************************************************************)
(* Batch analysis                                                           *)
(***************************************************************************)
\* onChange of the textarea: the user may type at any time
setBatchInput(text) ==
  /\ batchInput' = text
  /\ UNCHANGED <<inputSMILES, analysis, batchResults, isAnalyzing, toast,
                 single, batch>>
  /\ UNCHANGED <<cancelRequested, ganVars, vaeVars>>

\* click on "Analyze Batch" (disabled while isAnalyzing): the handler runs up
\* to the await of the first loop iteration
analyzeBatch ==
  /\ ~isAnalyzing
  /\ IF trim(batchInput) = <<>>
       THEN /\ toast' = [title |-> "Error", variant |-> "destructive",
                         args |-> <<>>]
            /\ UNCHANGED <<isAnalyzing, batch>>
       ELSE /\ isAnalyzing' = TRUE
            /\ batch' = [pc |-> "await",
                         smilesList |-> filterNonBlank(split(trim(batchInput))),
                         i |-> 1,
                         results |-> <<>>]
            /\ UNCHANGED toast
  /\ UNCHANGED <<inputSMILES, analysis, batchInput, batchResults, single>>
  /\ UNCHANGED <<cancelRequested, ganVars, vaeVars>>

\* analyzeBatchIterate with a progress toast after each item
analyzeBatchIterate_progress ==
  /\ batch.pc = "await"
  /\ batch.i < Len(batch.smilesList)
  /\ \E d \in Draws :
       batch' = [batch EXCEPT
                   !.results = Append(@, mockAnalyzeSMILES(
                                           trim(batch.smilesList[batch.i]), d)),
                   !.i = @ + 1]
  /\ toast' = [title |-> "Analyzing", variant |-> "default",
               args |-> <<batch.i, Len(batch.smilesList)>>]
  /\ UNCHANGED <<inputSMILES, analysis, batchInput, batchResults, isAnalyzing,
                 single>>
  /\ UNCHANGED <<cancelRequested, ganVars, vaeVars>>

\* a 500 ms timer fires: the body of one loop iteration, which leaves the
\* handler at the await of the next iteration
analyzeBatchIterate ==
  /\ batch.pc = "await"
  /\ batch.i < Len(batch.smilesList)
  /\ \E d \in Draws :
       batch' = [batch EXCEPT
                   !.results = Append(@, mockAnalyzeSMILES(
                                           trim(batch.smilesList[batch.i]), d)),
                   !.i = @ + 1]
  /\ UNCHANGED <<inputSMILES, analysis, batchInput, batchResults, isAnalyzing,
                 toast, single>>
  /\ UNCHANGED <<cancelRequested, ganVars, vaeVars>>

\* the last 500 ms timer fires: the last iteration and the code after the loop
analyzeBatchFinish ==
  /\ batch.pc = "await"
  /\ batch.i = Len(batch.smilesList)
  /\ \E d \in Draws :
       LET results == Append(batch.results,
                             mockAnalyzeSMILES(
                               trim(batch.smilesList[batch.i]), d))
           validCount == Cardinality({k \in 1..Len(results) :
                                        results[k].isValid})
       IN /\ batchResults' = results
          /\ isAnalyzing' = FALSE
          /\ toast' = [title |-> "Batch Analysis Complete",
                       variant |-> "default",
                       args |-> <<Len(results), validCount>>]
  /\ batch' = BatchIdle
  /\ UNCHANGED <<inputSMILES, analysis, batchInput, single>>
  /\ UNCHANGED <<cancelRequested, ganVars, vaeVars>>

NextBatch ==
  \/ \E text \in TypedBatches : setBatchInput(text)
  \/ analyzeBatch
  \/ analyzeBatchIterate
  \/ analyzeBatchFinish

SpecBatch == Init /\ [][NextBatch]_vars

\* The user asks to cancel the batch in flight, while item batch.i is being
\* processed (section 5 of the specification).  The widget has no control
\* for it and no handler reads the request: it is an event of the
\* environment, recorded once.
requestCancel ==
  /\ batch.pc = "await"
  /\ cancelRequested = 0
  /\ cancelRequested' = batch.i
  /\ UNCHANGED <<inputSMILES, analysis, batchInput, batchResults, isAnalyzing,
                 toast, single, batch>>
  /\ UNCHANGED <<ganVars, vaeVars>>

NextBatchCancel == NextBatch \/ requestCancel

SpecBatchCancel == Init /\ [][NextBatchCancel]_vars

(***************************************************************************)
(* GAN training (GANModule.tsx).  Losses and validity are in hundredths,    *)
(* fid in tenths.                                                           *)
(***************************************************************************)
mockTrainingData ==
  << [epoch |-> 1, generatorLoss |-> 245, discriminatorLoss |-> 123,
      fid |-> 452, validity |-> 67],
     [epoch |-> 50, generatorLoss |-> 182, discriminatorLoss |-> 95,
      fid |-> 321, validity |-> 78],
     [epoch |-> 100, generatorLoss |-> 134, discriminatorLoss |-> 87,
      fid |-> 245, validity |-> 85],
     [epoch |-> 150, generatorLoss |-> 95, discriminatorLoss |-> 92,
      fid |-> 187, validity |-> 91],
     [epoch |-> 200, generatorLoss |-> 73, discriminatorLoss |-> 88,
      fid |-> 152, validity |-> 94] >>

\* the convergence status set after publishing entry i (0-based, i > 0):
\* lossImprovement > 0.1, < -0.1, or neither
convergenceOf(i) ==
  LET lossImprovement == mockTrainingData[i].generatorLoss
                           - mockTrainingData[i + 1].generatorLoss
  IN IF lossImprovement > 10 THEN "converging"
     ELSE IF lossImprovement < -10 THEN "diverging"
     ELSE "stable"

\* the slots whose startTraining call is in flight
RunsInFlight == {r \in 1..MaxRuns : training[r].pc = "await"}

\* click on "Start GAN Training" (disabled while isTraining): the handler
\* runs up to the await of the first loop iteration.  The field stopped of a
\* call in flight is history: stopTraining was clicked since the call began.
startTraining ==
  /\ ~isTraining
  /\ RunsInFlight # 1..MaxRuns
  /\ LET r == CHOOSE q \in 1..MaxRuns :
                /\ training[q].pc = "idle"
                /\ \A q2 \in 1..(q - 1) : training[q2].pc = "await"
     IN training' = [training EXCEPT
                       ![r] = [pc |-> "await", i |-> 0, stopped |-> FALSE]]
  /\ isTraining' = TRUE
  /\ currentEpoch' = 0
  /\ trainingHistory' = <<>>
  /\ metrics' = Null
  /\ ganToast' = [title |-> "GAN Training Started", variant |-> "default",
                  args |-> <<>>]
  /\ UNCHANGED convergenceStatus
  /\ UNCHANGED <<smilesVars, vaeVars>>

\* a 2000 ms timer of the call in slot r fires: the body of one loop
\* iteration, which leaves the call at the await of the next iteration
trainingEpoch(r) ==
  /\ training[r].pc = "await"
  /\ training[r].i < Len(mockTrainingData) - 1
  /\ LET i == training[r].i
         currentMetrics == mockTrainingData[i + 1]
     IN /\ currentEpoch' = currentMetrics.epoch
        /\ metrics' = currentMetrics
        /\ trainingHistory' = Append(trainingHistory, currentMetrics)
        /\ convergenceStatus' = IF i > 0 THEN convergenceOf(i)
                                         ELSE convergenceStatus
        /\ ganToast' = [title |-> "Epoch Complete", variant |-> "default",
                        args |-> <<currentMetrics.epoch,
                                   currentMetrics.generatorLoss,
                                   currentMetrics.validity>>]
        /\ training' = [training EXCEPT ![r].i = i + 1]
  /\ UNCHANGED isTraining
  /\ UNCHANGED <<smilesVars, vaeVars>>

\* the last 2000 ms timer of the call in slot r fires: the last iteration and
\* the code after the loop
trainingFinish(r) ==
  /\ training[r].pc = "await"
  /\ training[r].i = Len(mockTrainingData) - 1
  /\ LET i == training[r].i
         currentMetrics == mockTrainingData[i + 1]
     IN /\ currentEpoch' = currentMetrics.epoch
        /\ metrics' = currentMetrics
        /\ trainingHistory' = Append(trainingHistory, currentMetrics)
        /\ convergenceStatus' = IF i > 0 THEN convergenceOf(i)
                                         ELSE convergenceStatus
  /\ isTraining' = FALSE
  /\ ganToast' = [title |-> "Training Complete", variant |-> "default",
                  args |-> <<>>]
  /\ training' = [training EXCEPT ![r] = TrainingIdle]
  /\ UNCHANGED <<smilesVars, vaeVars>>

\* click on "Stop Training" (rendered only while isTraining)
stopTraining ==
  /\ isTraining
  /\ isTraining' = FALSE
  /\ ganToast' = [title |-> "Training Stopped", variant |-> "destructive",
                  args |-> <<>>]
  /\ training' = [r \in 1..MaxRuns |->
                    IF training[r].pc = "await"
                      THEN [training[r] EXCEPT !.stopped = TRUE]
                      ELSE training[r]]
  /\ UNCHANGED <<currentEpoch, metrics, trainingHistory, convergenceStatus>>
  /\ UNCHANGED <<smilesVars, vaeVars>>

NextGAN ==
  \/ startTraining
  \/ \E r \in 1..MaxRuns : trainingEpoch(r)
  \/ \E r \in 1..MaxRuns : trainingFinish(r)
  \/ stopTraining

SpecGAN == Init /\ [][NextGAN]_vars

(***************************************************************************)
(* VAE generation (VAEModule.tsx).  Properties are in hundredths, tpsa in   *)
(* tenths, drugLikeness in hundredths.                                      *)
(***************************************************************************)
mockMolecules ==
  << [id |-> "1", smiles |-> Aspirin,
      properties |-> [mw |-> 18016, logp |-> 119, hbd |-> 1, hba |-> 4,
                      tpsa |-> 636],
      drugLikeness |-> 89],
     [id |-> "2", smiles |-> DrugLike,
      properties |-> [mw |-> 20628, logp |-> 184, hbd |-> 0, hba |-> 3,
                      tpsa |-> 153],
      drugLikeness |-> 92],
     [id |-> "3", smiles |-> Sulfonamide,
      properties |-> [mw |-> 24830, logp |-> 167, hbd |-> 1, hba |-> 4,
                      tpsa |-> 684],
      drugLikeness |-> 76] >>

steps ==
  << "Encoding latent space...", "Sampling latent vectors...",
     "Decoding to SMILES...", "Validating structures..." >>

\* generateMolecules without setGeneratedMolecules([])
generateMolecules_keep ==
  /\ ~isGenerating
  /\ isGenerating' = TRUE
  /\ progress' = 0
  /\ generating' = [pc |-> "await", i |-> 0]
  /\ UNCHANGED <<generatedMolecules, vaeToast>>
  /\ UNCHANGED <<smilesVars, ganVars>>

\* click on "Generate Novel Molecules" (disabled while isGenerating): the
\* handler runs up to the await of the first loop iteration
generateMolecules ==
  /\ ~isGenerating
  /\ isGenerating' = TRUE
  /\ progress' = 0
  /\ generatedMolecules' = <<>>
  /\ generating' = [pc |-> "await", i |-> 0]
  /\ UNCHANGED vaeToast
  /\ UNCHANGED <<smilesVars, ganVars>>

\* a 1000 ms timer fires: the body of one loop iteration
generateStep ==
  /\ generating.pc = "await"
  /\ generating.i < Len(steps) - 1
  /\ progress' = (generating.i + 1) * 25
  /\ vaeToast' = [title |-> "VAE Processing", variant |-> "default",
                  description |-> steps[generating.i + 1]]
  /\ generating' = [generating EXCEPT !.i = @ + 1]
  /\ UNCHANGED <<isGenerating, generatedMolecules>>
  /\ UNCHANGED <<smilesVars, ganVars>>

\* the last 1000 ms timer fires: the last iteration and the code after the
\* loop
generateFinish ==
  /\ generating.pc = "await"
  /\ generating.i = Len(steps) - 1
  /\ progress' = (generating.i + 1) * 25
  /\ generatedMolecules' = mockMolecules
  /\ isGenerating' = FALSE
  /\ vaeToast' = [title |-> "Generation Complete", variant |-> "default",
                  args |-> <<Len(mockMolecules)>>]
  /\ generating' = GeneratingIdle
  /\ UNCHANGED <<smilesVars, ganVars>>

NextVAE ==
  \/ generateMolecules
  \/ generateStep
  \/ generateFinish

(***************************************************************************)
(* The SMILES widget and the VAE widget side by side, with few typed values *)
(***************************************************************************)
FewInputs == {<<>>, Blank, WithX}
FewBatches == {<<>>, <<" ", "\n">>, SameLineTwice}

NextWidgets ==
  \/ \E s \in FewInputs : setInputSMILES(s)
  \/ analyzeSingle
  \/ analyzeSingleResume
  \/ \E text \in FewBatches : setBatchInput(text)
  \/ analyzeBatch
  \/ analyzeBatchIterate
  \/ analyzeBatchFinish
  \/ NextVAE

SpecWidgets == Init /\ [][NextWidgets]_vars

Next == NextSingle \/ NextBatch \/ NextGAN \/ NextVAE

Spec == Init /\ [][Next]_vars

(***************************************************************************)
(* What the specification calls a malformed SMILES string (sections 4.1,    *)
(* 4.2 and 8): an unrecognized character (whitespace included), an          *)
(* unmatched branch bracket or a ring-closure digit without a partner.      *)
(***************************************************************************)
DigitSet == {"0", "1", "2", "3", "4", "5", "6", "7", "8", "9"}
SmilesAlphabet == {"C", "N", "O", "S", "(", ")", "="} \cup DigitSet

HasWhitespace(s) == \E i \in 1..Len(s) : s[i] \in Whitespace

\* the number of "(" still open after s, read from branch depth n
RECURSIVE OpenBranches(_, _)
OpenBranches(s, n) ==
  IF s = <<>> THEN n
  ELSE IF Head(s) = "(" THEN OpenBranches(Tail(s), n + 1)
  ELSE IF Head(s) = ")" /\ n > 0 THEN OpenBranches(Tail(s), n - 1)
  ELSE OpenBranches(Tail(s), n)

UnmatchedOpenBranch(s) == OpenBranches(s, 0) > 0

\* a ")" met at branch depth 0
RECURSIVE UnmatchedCloseBranch(_, _)
UnmatchedCloseBranch(s, n) ==
  IF s = <<>> THEN FALSE
  ELSE IF Head(s) = "(" THEN UnmatchedCloseBranch(Tail(s), n + 1)
  ELSE IF Head(s) = ")"
    THEN n = 0 \/ UnmatchedCloseBranch(Tail(s), n - 1)
  ELSE UnmatchedCloseBranch(Tail(s), n)

\* a ring-closure digit that is left without its partner
UnmatchedRingDigit(s) ==
  \E c \in DigitSet : Cardinality({i \in 1..Len(s) : s[i] = c}) % 2 = 1

Malformed(s) ==
  \/ s = <<>>
  \/ \E i \in 1..Len(s) : s[i] \notin SmilesAlphabet
  \/ UnmatchedOpenBranch(s)
  \/ UnmatchedCloseBranch(s, 0)
  \/ UnmatchedRingDigit(s)

HasResult == analysis # Null

\* the result of a well-formed string that the code accepted
HasValidResult ==
  HasResult /\ analysis.isValid /\ ~Malformed(analysis.smiles)

\* the number of Lipinski rule flags of a result that are false
FailedRules(r) ==
  Cardinality({f \in {"mw", "logp", "hbd", "hba"} : ~r.lipinski[f]})

\* a numeric field holds the "unavailable" sentinel: not a count or a weight
Unavailable(v) == v \notin Nat

ElementSymbols == {"C", "H", "N", "O"}

\* a formula has an element symbol followed by the count 1
HasUnitSuffix(f) ==
  \E i \in 1..(Len(f) - 1) :
    /\ f[i] \in ElementSymbols
    /\ f[i + 1] = "1"
    /\ (i + 1 = Len(f) \/ f[i + 2] \notin DigitSet)

(***************************************************************************)
(* C1. Determinism: a second analysis of the same valid SMILES string       *)
(* yields the same result record as the first, field for field.             *)
(***************************************************************************)
C1_Determinism ==
  [][ ( /\ single.pc = "await"
        /\ single'.pc = "idle"
        /\ HasValidResult
        /\ single.inputSMILES = analysis.smiles )
      => analysis' = analysis ]_vars

(***************************************************************************)
(* C2. A batch over N input strings, M of them malformed, ends with exactly *)
(* N results, the i-th carrying the i-th input string, exactly M of them    *)
(* flagged isValid = false.  The input strings are the non-blank lines.     *)
(***************************************************************************)
C2_BatchCountsAndOrder ==
  [][ (batch.pc = "await" /\ batch'.pc = "idle")
      => LET inputs == batch.smilesList
         IN /\ Len(batchResults') = Len(inputs)
            /\ \A k \in 1..Len(inputs) : batchResults'[k].smiles = inputs[k]
            /\ Cardinality({k \in 1..Len(batchResults') :
                              ~batchResults'[k].isValid})
                 = Cardinality({k \in 1..Len(inputs) : Malformed(inputs[k])})
    ]_vars

(***************************************************************************)
(* C3. A result with isValid = false holds the "unavailable" sentinel in    *)
(* every quantitative field, never a fabricated number.                     *)
(***************************************************************************)
C3_InvalidIsUnavailable ==
  (HasResult /\ ~analysis.isValid)
    => /\ Unavailable(analysis.molecularWeight)
       /\ Unavailable(analysis.atomCount)
       /\ Unavailable(analysis.bondCount)
       /\ Unavailable(analysis.rings)
       /\ Unavailable(analysis.aromaticRings)
       /\ Unavailable(analysis.heteroatoms)
       /\ Unavailable(analysis.rotatable)
       /\ analysis.formula = <<>>
       /\ Unavailable(analysis.lipinski.violations)

(***************************************************************************)
(* C4. lipinski.violations is the number of the four rule flags that are    *)
(* false (stated for the results of well-formed strings, where no sentinel  *)
(* can stand for the count).                                                *)
(***************************************************************************)
C4_ViolationsCountFailedRules ==
  HasValidResult => analysis.lipinski.violations = FailedRules(analysis)

(***************************************************************************)
(* C5. A string with an unmatched "(" or with a ring-closure digit that has *)
(* no partner is rejected: its result has isValid = false.                  *)
(***************************************************************************)
C5_StructureErrorsRejected ==
  ( /\ HasResult
    /\ \/ UnmatchedOpenBranch(analysis.smiles)
       \/ UnmatchedRingDigit(analysis.smiles) )
    => ~analysis.isValid

(***************************************************************************)
(* C6. Whitespace is rejected, not skipped: an input with a whitespace      *)
(* character never gets a valid result, and is not analyzed as the string   *)
(* without its whitespace.                                                  *)
(***************************************************************************)
C6_WhitespaceRejected ==
  [][ ( /\ single.pc = "await"
        /\ single'.pc = "idle"
        /\ HasWhitespace(single.inputSMILES) )
      => /\ ~analysis'.isValid
         /\ analysis'.smiles = single.inputSMILES ]_vars

(***************************************************************************)
(* C7. The formula of a result never has an element symbol followed by the  *)
(* count 1 (stated for the results of well-formed strings, where no         *)
(* sentinel can stand for the formula).                                     *)
(***************************************************************************)
C7_NoUnitSuffix ==
  HasValidResult => ~HasUnitSuffix(analysis.formula)

(***************************************************************************)
(* C8. In every analysis result lipinski.mw is true exactly when that       *)
(* result's molecularWeight is at most 500.                                 *)
(***************************************************************************)
C8_MwFlagMatchesWeight ==
  HasResult => (analysis.lipinski.mw <=> analysis.molecularWeight <= 500)

\* a result heavier than 500 whose flag is false has been published
C8_Witness ==
  /\ HasResult
  /\ analysis.molecularWeight > 500
  /\ ~analysis.lipinski.mw

(***************************************************************************)
(* C9. Palmitic acid: ring count 0, rotatable bonds 14, heteroatoms 2.      *)
(***************************************************************************)
C9_PalmiticAcid ==
  (HasResult /\ analysis.smiles = PalmiticAcid)
    => /\ analysis.rings = 0
       /\ analysis.rotatable = 14
       /\ analysis.heteroatoms = 2

(***************************************************************************)
(* C10. Aspirin: atom count 13, ring count 1, aromatic ring count 1,        *)
(* formula C9H8O4, no Lipinski violation.                                   *)
(***************************************************************************)
C10_Aspirin ==
  (HasResult /\ analysis.smiles = Aspirin)
    => /\ analysis.atomCount = 13
       /\ analysis.rings = 1
       /\ analysis.aromaticRings = 1
       /\ analysis.formula = <<"C", "9", "H", "8", "O", "4">>
       /\ analysis.lipinski.violations = 0

IsPrefix(a, b) ==
  Len(a) <= Len(b) /\ \A k \in 1..Len(a) : a[k] = b[k]

(***************************************************************************)
(* C11. Cooperative cancellation of a batch: a cancellation requested while *)
(* item k is being processed is honoured before item k+1 starts, so no item *)
(* after k is analyzed and the batch ends with at most k results.  Stated   *)
(* for the first batch of a session.                                        *)
(***************************************************************************)
C11_CancelBetweenItems ==
  [][ (cancelRequested > 0 /\ batch.pc = "await" /\ batchResults = <<>>)
      => IF batch'.pc = "await"
           THEN Len(batch'.results) <= cancelRequested
           ELSE Len(batchResults') <= cancelRequested ]_vars

(***************************************************************************)
(* C12. The analyzer is pure with respect to the component state: the step  *)
(* of a batch that only calls mockAnalyzeSMILES changes none of             *)
(* inputSMILES, analysis, batchInput, batchResults, isAnalyzing and shows   *)
(* no toast; and the k-th result of a batch is a result the analyzer can    *)
(* return for the k-th line alone, whatever the other lines and their       *)
(* order.                                                                   *)
(***************************************************************************)
ResultOfLine(r, line) ==
  \E d \in Draws : r = mockAnalyzeSMILES(trim(line), d)

C12_AnalyzerIsPure ==
  /\ [](batch.pc = "await"
          => /\ Len(batch.results) = batch.i - 1
             /\ \A k \in 1..Len(batch.results) :
                  ResultOfLine(batch.results[k], batch.smilesList[k]))
  /\ [][ (batch.pc = "await" /\ batch'.pc = "await"
            /\ Len(batch'.results) > Len(batch.results))
         => UNCHANGED <<inputSMILES, analysis, batchInput, batchResults,
                        isAnalyzing, toast>> ]_vars
  /\ [][ (batch.pc = "await" /\ batch'.pc = "idle")
         => /\ Len(batchResults') = Len(batch.smilesList)
            /\ \A k \in 1..Len(batchResults') :
                 ResultOfLine(batchResults'[k], batch.smilesList[k]) ]_vars

\* a batch of three lines with two of them analyzed, a toast of an earlier
\* batch still shown
C12_Witness ==
  /\ batch.pc = "await"
  /\ Len(batch.smilesList) = 3
  /\ Len(batch.results) = 2
  /\ batchResults # <<>>
  /\ toast # Null

(***************************************************************************)
(* C13. stopTraining interrupts the run: once it was invoked during a run,  *)
(* that run no longer changes currentEpoch, metrics, trainingHistory or     *)
(* convergenceStatus and does not report "Training Complete".               *)
(***************************************************************************)
C13_StopInterruptsRun ==
  [][ \A r \in 1..MaxRuns :
        (training[r].pc = "await" /\ training[r].stopped
           /\ training'[r] # training[r])
        => /\ UNCHANGED <<currentEpoch, metrics, trainingHistory,
                          convergenceStatus>>
           /\ ganToast'.title # "Training Complete" ]_vars

(***************************************************************************)
(* C14. At most one startTraining loop is in progress at any time, so       *)
(* trainingHistory never holds the entries of two runs interleaved: it is   *)
(* a prefix of mockTrainingData.                                            *)
(***************************************************************************)
C14_OneLoopAtATime ==
  /\ Cardinality(RunsInFlight) <= 1
  /\ IsPrefix(trainingHistory, mockTrainingData)

(***************************************************************************)
(* C15. A run that stopTraining does not interrupt: while it is in flight   *)
(* trainingHistory is a prefix of mockTrainingData and currentEpoch never   *)
(* decreases; when it ends isTraining is false, currentEpoch is 200 and     *)
(* trainingHistory is the five entries of mockTrainingData in order.        *)
(***************************************************************************)
C15_UninterruptedRun ==
  /\ [](\A r \in 1..MaxRuns :
          (training[r].pc = "await" /\ ~training[r].stopped)
            => IsPrefix(trainingHistory, mockTrainingData))
  /\ [][ \A r \in 1..MaxRuns :
           (training[r].pc = "await" /\ ~training[r].stopped)
           => /\ currentEpoch' >= currentEpoch
              /\ (training'[r].pc = "idle")
                   => /\ isTraining' = FALSE
                      /\ currentEpoch' = 200
                      /\ trainingHistory' = mockTrainingData ]_vars

(***************************************************************************)
(* C16. VAE widget: progress is one of 0, 25, 50, 75, 100 and does not      *)
(* decrease during a generateMolecules run; while isGenerating holds,       *)
(* generatedMolecules is empty; when generatedMolecules is not empty,       *)
(* progress is 100 and generatedMolecules is the three mockMolecules.       *)
(***************************************************************************)
C16_VAEProgress ==
  /\ [](/\ progress \in {0, 25, 50, 75, 100}
        /\ isGenerating => generatedMolecules = <<>>
        /\ generatedMolecules # <<>>
             => (progress = 100 /\ generatedMolecules = mockMolecules))
  /\ [][generating.pc = "await" => progress' >= progress]_vars

\* a run half-way: two of the four steps done
C16_Witness ==
  /\ isGenerating
  /\ progress = 50
  /\ vaeToast.title = "VAE Processing"
  /\ generating.i = 2

(***************************************************************************)
(* C17. analyzeSingle on an empty or whitespace-only inputSMILES, and       *)
(* analyzeBatch on an empty or whitespace-only batchInput, show the error   *)
(* toast and leave analysis, batchResults and isAnalyzing unchanged; no     *)
(* analysis starts from such an input.                                      *)
(***************************************************************************)
C17_BlankInputIsAnError ==
  /\ [][ ( \/ (analyzeSingle /\ trim(inputSMILES) = <<>>)
           \/ (analyzeBatch /\ trim(batchInput) = <<>>) )
         => /\ toast' # Null
            /\ toast'.title = "Error"
            /\ toast'.variant = "destructive"
            /\ UNCHANGED <<analysis, batchResults, isAnalyzing, single,
                           batch>> ]_vars
  /\ [][ (~isAnalyzing /\ isAnalyzing')
         => /\ single'.pc = "await" => trim(inputSMILES) # <<>>
            /\ batch'.pc = "await" => trim(batchInput) # <<>> ]_vars

\* the error toast is shown over the results of earlier analyses, with both
\* inputs blank
C17_Witness ==
  /\ toast # Null
  /\ toast.title = "Error"
  /\ HasResult
  /\ batchResults # <<>>
  /\ ~isAnalyzing
  /\ inputSMILES = Blank
  /\ trim(batchInput) = <<>>

====
